---- MODULE Spec2Model ----
(***************************************************************************)
(* Model of examples/pytorch/kg_completion/main.py: the filtered ranking   *)
(* evaluation ranking_and_hits_this and the training loop of main that     *)
(* uses its return value to select the checkpoint.                         *)
(*                                                                         *)
(* Scores are modelled as small integers (the code only compares, zeroes   *)
(* and copies them).  torch.sort is called without stable=True, so the     *)
(* order of equal scores is not determined by the code: argsort is any     *)
(* permutation that is descending by score.  Means are modelled exactly,   *)
(* as fractions [num, den].                                                *)
(***************************************************************************)
EXTENDS Integers, Sequences, FiniteSets, TLC

\* ---------------------------------------------------------------- bounds
NumEntities == 3
MaxEpochs == 5
NumTrainBatches == 2

\* ------------------------------------------------------ program constants
NumHitsLevels == 10

Ent == 0 .. (NumEntities - 1)
ScoreVals == {-1, 0, 1, 2}
HitsLevels == 0 .. (NumHitsLevels - 1)

VARIABLES
    cfg,          \* cfg["epochs"], cfg["resume"]
    pc,           \* position in main: start, resume_test, resume_dev, train, dev, test, done
    epoch,        \* loop variable of main's training loop
    tb,           \* training batches of the current epoch already processed
    params,       \* model parameters, identified by the number of opt.step() calls
    best_mrr,     \* main's best_mrr, a fraction
    model_file,   \* content of model_path: "none", "resumed" or a params value
    step,         \* position inside ranking_and_hits_this: idle, load, filter, sort, accumulate
    loader,       \* batches of dev_rank_batcher not yet iterated
    e1, e2,       \* current batch: subject and object ids, one per example
    filter1, filter2,   \* current batch: e2_multi1 / e2_multi2 as id sets
    pred1, pred2,       \* current batch: score rows of model(e1, rel), model(e2, rel_reverse)
    argsort1, argsort2, \* current batch: sorted index rows
    ranks, ranks_left, ranks_right,
    hits, hits_left, hits_right,
    model1, model2,     \* history: pred1 / pred2 as the model returned them
    devHistory,         \* history: dev evaluations of the training loop
    saves,              \* history: epochs at which torch.save was called
    evalLog,            \* history: evaluation calls and saves of main, in order
    exRanks,            \* history: the ranks of the running pass, by example
    error,              \* the exception that ended the run, or "none"
    t_cfg,              \* text classification: config.graph_type, config.epochs
    t_pc,               \* text classification: position in main / ModelHandler
    t_epoch,            \* text classification: loop variable of ModelHandler.train
    t_tb,               \* text classification: training batches of the epoch done
    t_log               \* history: the steps of the text classification run

mainVars == <<cfg, pc, epoch, tb, params, best_mrr, model_file>>
batchVars == <<e1, e2, filter1, filter2, pred1, pred2, model1, model2>>
sortVars == <<argsort1, argsort2>>
accVars == <<ranks, ranks_left, ranks_right, hits, hits_left, hits_right>>
histVars == <<devHistory, saves>>
textVars == <<t_cfg, t_pc, t_epoch, t_tb, t_log>>
runVars == <<error, textVars>>
vars == <<mainVars, step, loader, batchVars, sortVars, accVars, histVars,
          evalLog, exRanks, runVars>>

\* ------------------------------------------------------------- fractions
Frac(n, d) == [num |-> n, den |-> d]
FracLess(a, b) == a.num * b.den < b.num * a.den
FracEq(a, b) == a.num * b.den = b.num * a.den

RECURSIVE Factorial(_)
Factorial(n) == IF n <= 1 THEN 1 ELSE n * Factorial(n - 1)

RECURSIVE SeqSum(_)
SeqSum(s) == IF s = <<>> THEN 0 ELSE Head(s) + SeqSum(Tail(s))

\* np.mean(list)
Mean(s) == Frac(SeqSum(s), Len(s))

\* np.mean(1.0 / np.array(ranks)), over the common denominator NumEntities!
RecipUnit == Factorial(NumEntities)

\* np.sum in place of np.mean in line 190
SumReciprocalRank(rs) ==
    Frac(SeqSum([k \in 1 .. Len(rs) |-> RecipUnit \div rs[k]]), RecipUnit)

MeanReciprocalRank(rs) ==
    Frac(SeqSum([k \in 1 .. Len(rs) |-> RecipUnit \div rs[k]]), Len(rs) * RecipUnit)

\* ------------------------------------------------- the evaluation inputs
\* One example of a batch: e1 (subject), e2 (object) and the two filter
\* tensors e2_multi1, e2_multi2, held as the set of ids they contain.
Example(s, o, f1, f2) == [e1 |-> s, e2 |-> o, filter1 |-> f1, filter2 |-> f2]

\* The examples of a dataloader in the order it yields them.
RECURSIVE Flat(_)
Flat(data) == IF data = <<>> THEN <<>> ELSE Head(data) \o Flat(Tail(data))

\* The validation and test dataloaders (shuffle=False): two validation
\* batches, the last one smaller, and one test batch.
ValData ==
    << << Example(0, 1, {1, 2}, {0}), Example(2, 0, {}, {1, 2}) >>,
       << Example(1, 1, {0, 1}, {0, 1}) >> >>
TestData == << << Example(1, 2, {0}, {1}) >> >>

\* Score rows.  AllRows is every row over ScoreVals; EvalRows is the small
\* set the model's output is drawn from inside the training run.
AllRows == [Ent -> ScoreVals]
EvalRows ==
    { [j \in Ent |-> j + 1],
      [j \in Ent |-> 1 - j] }

\* The inputs of a single-example batch in which one direction ranges over
\* every target, filter set and score row, and the other direction over a
\* few: the two directions use separate tensors.
NarrowIds == {0}
NarrowRows == { [j \in Ent |-> j + 1] }
NarrowFilters == { {}, {0, 1} }
WideLeft == { Example(s, o, f1, f2) :
                s \in NarrowIds, o \in Ent, f1 \in SUBSET Ent, f2 \in NarrowFilters }
WideRight == { Example(s, o, f1, f2) :
                s \in Ent, o \in NarrowIds, f1 \in NarrowFilters, f2 \in SUBSET Ent }

\* ------------------------------------------- ranking_and_hits_this: steps
\* FilterStep without line 130 / 131: the saved value is never written back
FilterStepNoRestore(row, filter, target) ==
    [j \in Ent |-> IF j \in filter THEN 0 ELSE row[j]]

\* FilterStep with "+=" in place of "=" in line 130 / 131
FilterStepAddBack(row, filter, target) ==
    LET target_value == row[target]
        zeroed == [j \in Ent |-> IF j \in filter THEN 0 ELSE row[j]]
    IN  [zeroed EXCEPT ![target] = zeroed[target] + target_value]

\* lines 123-131, one row: save the target's score, zero the filter ids,
\* write the saved value back
FilterStep(row, filter, target) ==
    LET target_value == row[target]
        zeroed == [j \in Ent |-> IF j \in filter THEN 0 ELSE row[j]]
    IN  [zeroed EXCEPT ![target] = target_value]

\* torch.sort(pred, 1, descending=True)[1] for one row: the index orders
\* that are descending by score (equal scores in any order)
Orders == { p \in [1 .. NumEntities -> Ent] : \A a, b \in 1 .. NumEntities : a # b => p[a] # p[b] }
\* the sort with descending=False
AscendingOrders(row) ==
    { p \in Orders : \A k \in 1 .. (NumEntities - 1) : row[p[k]] <= row[p[k + 1]] }

IsDescending(row, p) == \A k \in 1 .. (NumEntities - 1) : row[p[k]] >= row[p[k + 1]]
DescendingOrders(row) == { p \in Orders : IsDescending(row, p) }

\* np.where(argsort[i] == target)[0][0]: 0-based position of the target
RankOf(order, target) == (CHOOSE k \in 1 .. NumEntities : order[k] = target) - 1

\* the rank left 0-based
ZeroBased(rank) == rank

\* rank + 1, "since the lowest rank is rank 1 not rank 0"
OneBased(rank) == rank + 1

\* the test of lines 151 / 158 with "<" in place of "<="
HitIndicatorStrict(rank, hits_level) == IF rank < hits_level THEN 1 ELSE 0

\* the test of lines 151 / 158 with "==" in place of "<="
HitIndicatorExact(rank, hits_level) == IF rank = hits_level THEN 1 ELSE 0

\* the test of lines 151 / 158, as the appended 1.0 / 0.0
HitIndicator(rank, hits_level) == IF rank <= hits_level THEN 1 ELSE 0

\* AccumulateFrom without lines 146, 159 and 162: the right rank and its hit
\* indicators are not appended to the combined lists
RECURSIVE AccumulateLeftOnly(_, _, _, _, _, _)
AccumulateLeftOnly(acc, i, s, o, as1, as2) ==
    IF i > Len(s) THEN acc
    ELSE LET rank1 == RankOf(as1[i], o[i])
             rank2 == RankOf(as2[i], s[i])
             next == [ ranks |-> Append(acc.ranks, OneBased(rank1)),
                       ranks_left |-> Append(acc.ranks_left, OneBased(rank1)),
                       ranks_right |-> Append(acc.ranks_right, OneBased(rank2)),
                       hits |-> [h \in HitsLevels |->
                                   Append(acc.hits[h], HitIndicator(rank1, h))],
                       hits_left |-> [h \in HitsLevels |->
                                   Append(acc.hits_left[h], HitIndicator(rank1, h))],
                       hits_right |-> [h \in HitsLevels |->
                                   Append(acc.hits_right[h], HitIndicator(rank2, h))] ]
         IN  AccumulateLeftOnly(next, i + 1, s, o, as1, as2)

\* AccumulateFrom with the accumulator lists created inside the batch loop:
\* each batch starts from empty lists
RECURSIVE AccumulateRestart(_, _, _, _, _, _)
AccumulateRestart(acc, i, s, o, as1, as2) ==
    IF i > Len(s) THEN acc
    ELSE LET rank1 == RankOf(as1[i], o[i])
             rank2 == RankOf(as2[i], s[i])
             base == IF i = 1
                     THEN [ ranks |-> <<>>, ranks_left |-> <<>>, ranks_right |-> <<>>,
                            hits |-> [h \in HitsLevels |-> <<>>],
                            hits_left |-> [h \in HitsLevels |-> <<>>],
                            hits_right |-> [h \in HitsLevels |-> <<>>] ]
                     ELSE acc
             next == [ ranks |-> base.ranks \o << OneBased(rank1), OneBased(rank2) >>,
                       ranks_left |-> Append(base.ranks_left, OneBased(rank1)),
                       ranks_right |-> Append(base.ranks_right, OneBased(rank2)),
                       hits |-> [h \in HitsLevels |->
                                   base.hits[h] \o << HitIndicator(rank1, h), HitIndicator(rank2, h) >>],
                       hits_left |-> [h \in HitsLevels |->
                                   Append(base.hits_left[h], HitIndicator(rank1, h))],
                       hits_right |-> [h \in HitsLevels |->
                                   Append(base.hits_right[h], HitIndicator(rank2, h))] ]
         IN  AccumulateRestart(next, i + 1, s, o, as1, as2)

\* lines 139-163 for examples i..n of the batch, appended to the accumulators acc
RECURSIVE AccumulateFrom(_, _, _, _, _, _)
AccumulateFrom(acc, i, s, o, as1, as2) ==
    IF i > Len(s) THEN acc
    ELSE LET rank1 == RankOf(as1[i], o[i])
             rank2 == RankOf(as2[i], s[i])
             next == [ ranks |-> acc.ranks \o << OneBased(rank1), OneBased(rank2) >>,
                       ranks_left |-> Append(acc.ranks_left, OneBased(rank1)),
                       ranks_right |-> Append(acc.ranks_right, OneBased(rank2)),
                       hits |-> [h \in HitsLevels |->
                                   acc.hits[h] \o << HitIndicator(rank1, h), HitIndicator(rank2, h) >>],
                       hits_left |-> [h \in HitsLevels |->
                                   Append(acc.hits_left[h], HitIndicator(rank1, h))],
                       hits_right |-> [h \in HitsLevels |->
                                   Append(acc.hits_right[h], HitIndicator(rank2, h))] ]
         IN  AccumulateFrom(next, i + 1, s, o, as1, as2)

EmptyHits == [h \in HitsLevels |-> <<>>]

\* StartPass with the accumulators created once, outside the function:
\* the lists of the previous pass are still in them
StartPassKeep(data) ==
    /\ step' = "load"
    /\ loader' = data
    /\ exRanks' = {}
    /\ UNCHANGED <<accVars, batchVars, sortVars>>

\* lines 86-95: fresh accumulators, then iterate the given dataloader
StartPass(data) ==
    /\ step' = "load"
    /\ loader' = data
    /\ ranks' = <<>>
    /\ ranks_left' = <<>>
    /\ ranks_right' = <<>>
    /\ hits' = EmptyHits
    /\ hits_left' = EmptyHits
    /\ hits_right' = EmptyHits
    /\ exRanks' = {}
    /\ UNCHANGED <<batchVars, sortVars>>

\* lines 97-116: next batch of the dataloader, scored by the model in both
\* directions; the model's rows are drawn from rows1 and rows2
LoadBatchFrom(rows1, rows2) ==
    /\ step = "load"
    /\ loader # <<>>
    /\ LET batch == Head(loader)
           n == Len(batch)
       IN  /\ e1' = [i \in 1 .. n |-> batch[i].e1]
           /\ e2' = [i \in 1 .. n |-> batch[i].e2]
           /\ filter1' = [i \in 1 .. n |-> batch[i].filter1]
           /\ filter2' = [i \in 1 .. n |-> batch[i].filter2]
           /\ \E p1 \in [1 .. n -> rows1], p2 \in [1 .. n -> rows2] :
                /\ pred1' = p1
                /\ pred2' = p2
                /\ model1' = p1
                /\ model2' = p2
    /\ loader' = Tail(loader)
    /\ step' = "filter"
    /\ UNCHANGED <<mainVars, sortVars, accVars, histVars, evalLog, exRanks, runVars>>

LoadBatch == LoadBatchFrom(EvalRows, EvalRows)

\* the same step with the wide inputs of one direction
LoadBatchWide ==
    \/ /\ loader # <<>>
       /\ Head(loader)[1] \in WideLeft
       /\ LoadBatchFrom(AllRows, NarrowRows)
    \/ /\ loader # <<>>
       /\ Head(loader)[1] \in WideRight
       /\ LoadBatchFrom(NarrowRows, AllRows)

\* lines 117-131: the filter loop over the examples of the batch
FilterLoop ==
    /\ step = "filter"
    /\ pred1' = [i \in 1 .. Len(e1) |-> FilterStep(pred1[i], filter1[i], e2[i])]
    /\ pred2' = [i \in 1 .. Len(e1) |-> FilterStep(pred2[i], filter2[i], e1[i])]
    /\ step' = "sort"
    /\ UNCHANGED <<mainVars, loader, e1, e2, filter1, filter2, model1, model2,
                   sortVars, accVars, histVars, evalLog, exRanks, runVars>>

\* torch.sort(pred, 1, descending=True)[1] for a matrix: one order per row
RECURSIVE SortRows(_)
SortRows(preds) ==
    IF preds = <<>> THEN { <<>> }
    ELSE { <<p>> \o rest : p \in DescendingOrders(Head(preds)), rest \in SortRows(Tail(preds)) }

\* lines 134-138: sort both score matrices row by row
SortRank ==
    /\ step = "sort"
    /\ \E a1 \in SortRows(pred1), a2 \in SortRows(pred2) :
          /\ argsort1' = a1
          /\ argsort2' = a2
    /\ step' = "accumulate"
    /\ UNCHANGED <<mainVars, loader, batchVars, accVars, histVars, evalLog, exRanks, runVars>>

\* lines 139-163: ranks and hit indicators of every example of the batch
Accumulate ==
    /\ step = "accumulate"
    /\ LET acc == [ ranks |-> ranks, ranks_left |-> ranks_left, ranks_right |-> ranks_right,
                    hits |-> hits, hits_left |-> hits_left, hits_right |-> hits_right ]
           out == AccumulateFrom(acc, 1, e1, e2, argsort1, argsort2)
       IN  /\ ranks' = out.ranks
           /\ ranks_left' = out.ranks_left
           /\ ranks_right' = out.ranks_right
           /\ hits' = out.hits
           /\ hits_left' = out.hits_left
           /\ hits_right' = out.hits_right
    /\ exRanks' = exRanks \cup
          { << Example(e1[i], e2[i], filter1[i], filter2[i]),
               OneBased(RankOf(argsort1[i], e2[i])),
               OneBased(RankOf(argsort2[i], e1[i])) >> : i \in 1 .. Len(e1) }
    /\ step' = "load"
    /\ UNCHANGED <<mainVars, loader, batchVars, sortVars, histVars, evalLog, runVars>>

\* the for loop of line 97 is exhausted: lines 167-190 run next
PassDone == step = "load" /\ loader = <<>>

\* the locals of ranking_and_hits_this are gone once it has returned
LeavePass ==
    /\ step' = "idle"
    /\ loader' = <<>>
    /\ e1' = <<>>
    /\ e2' = <<>>
    /\ filter1' = <<>>
    /\ filter2' = <<>>
    /\ pred1' = <<>>
    /\ pred2' = <<>>
    /\ model1' = <<>>
    /\ model2' = <<>>
    /\ argsort1' = <<>>
    /\ argsort2' = <<>>
    /\ ranks' = <<>>
    /\ ranks_left' = <<>>
    /\ ranks_right' = <<>>
    /\ hits' = EmptyHits
    /\ hits_left' = EmptyHits
    /\ hits_right' = EmptyHits
    /\ exRanks' = {}

\* ------------------------------------------------------------------ main
\* line 330 without "and epoch > 0"
EvalEpochEven(e) == e % 2 = 0

\* line 330 / lines 344-345: the epochs in which the evaluations run
EvalEpoch(e) == e % 2 = 0 /\ e > 0

\* line 340 with ">=" in place of ">"
ImprovesOrTies(dev_mrr, best) == ~FracLess(dev_mrr, best)

\* line 340: dev_mrr > best_mrr
Improves(dev_mrr, best) == FracLess(best, dev_mrr)

\* an entry of evalLog: what main does, and when
Event(kind) == [kind |-> kind, epoch |-> epoch, tb |-> tb, params |-> params]

\* lines 28-43 with the final else building a default model instead of raising
AnyModel(m) == TRUE

\* lines 28-43 of KGC.__init__: the values of cfg["model"] that build a model
KnownModel(m) ==
    m \in {"None", "conve", "distmult", "complex", "ggnn_distmult", "gcn_distmult",
           "gcn_complex"}

\* a raised exception: its class and the parts its message is formatted from
Raised(type, parts) == [type |-> type, parts |-> parts]

\* no exception has been raised
NoError == Raised("none", <<>>)

\* lines 42-43 and 274: an unknown cfg["model"] raises out of main
UnknownModel ==
    /\ pc = "start"
    /\ ~KnownModel(cfg.model)
    /\ pc' = "failed"
    /\ error' = Raised("Exception", <<"Unknown model type!">>)
    /\ UNCHANGED <<cfg, epoch, tb, params, best_mrr, model_file, step, loader, batchVars,
                   sortVars, accVars, histVars, evalLog, exRanks, textVars>>

\* line 304 and the head of the for loop of line 307
EnterLoop ==
    /\ best_mrr' = Frac(0, 1)
    /\ epoch' = 0
    /\ tb' = 0
    /\ pc' = IF 0 < cfg.epochs THEN "train" ELSE "done"

\* the for loop of line 307 takes its next value
NextEpoch ==
    /\ epoch' = epoch + 1
    /\ tb' = 0
    /\ pc' = IF epoch + 1 < cfg.epochs THEN "train" ELSE "done"

\* lines 279-292: with cfg["resume"], load model_path and evaluate on test
ResumeTest ==
    /\ pc = "start"
    /\ KnownModel(cfg.model)
    /\ cfg.resume
    /\ pc' = "resume_test"
    /\ StartPass(TestData)
    /\ evalLog' = Append(evalLog, Event("resume_test"))
    /\ UNCHANGED <<cfg, epoch, tb, params, best_mrr, model_file, histVars, runVars>>

\* lines 293-295: the test evaluation has returned, evaluate on dev
ResumeDev ==
    /\ pc = "resume_test"
    /\ PassDone
    /\ pc' = "resume_dev"
    /\ StartPass(ValData)
    /\ evalLog' = Append(evalLog, Event("resume_dev"))
    /\ UNCHANGED <<cfg, epoch, tb, params, best_mrr, model_file, histVars, runVars>>

\* lines 304-307 after the dev evaluation of the resume branch has returned
ResumeDone ==
    /\ pc = "resume_dev"
    /\ PassDone
    /\ EnterLoop
    /\ LeavePass
    /\ UNCHANGED <<cfg, params, model_file, histVars, evalLog, runVars>>

\* lines 296-307: without cfg["resume"], model.init() and enter the loop
NoResume ==
    /\ pc = "start"
    /\ KnownModel(cfg.model)
    /\ ~cfg.resume
    /\ EnterLoop
    /\ UNCHANGED <<cfg, params, model_file, step, loader, batchVars, sortVars,
                   accVars, histVars, evalLog, exRanks, runVars>>

\* lines 309-324: one training batch, ending in opt.step()
TrainBatch ==
    /\ pc = "train"
    /\ tb < NumTrainBatches
    /\ tb' = tb + 1
    /\ params' = params + 1
    /\ UNCHANGED <<cfg, pc, epoch, best_mrr, model_file, step, loader, batchVars,
                   sortVars, accVars, histVars, evalLog, exRanks, runVars>>

\* lines 328-354 in an epoch where neither evaluation runs
EndEpoch ==
    /\ pc = "train"
    /\ tb = NumTrainBatches
    /\ ~EvalEpoch(epoch)
    /\ NextEpoch
    /\ UNCHANGED <<cfg, params, best_mrr, model_file, step, loader, batchVars,
                   sortVars, accVars, histVars, evalLog, exRanks, runVars>>

\* lines 328-339: the dev evaluation is called
DevEvaluation ==
    /\ pc = "train"
    /\ tb = NumTrainBatches
    /\ EvalEpoch(epoch)
    /\ pc' = "dev"
    /\ StartPass(ValData)
    /\ evalLog' = Append(evalLog, Event("dev"))
    /\ UNCHANGED <<cfg, epoch, tb, params, best_mrr, model_file, histVars, runVars>>

\* lines 331-354: the dev evaluation returns dev_mrr, the checkpoint is
\* written if it improves on best_mrr, and the test evaluation is called
DevReturn ==
    /\ pc = "dev"
    /\ PassDone
    /\ LET dev_mrr == MeanReciprocalRank(ranks)
       IN  /\ IF Improves(dev_mrr, best_mrr)
              THEN /\ best_mrr' = dev_mrr
                   /\ model_file' = params
                   /\ saves' = Append(saves, epoch)
                   /\ evalLog' = evalLog \o << Event("save"), Event("test") >>
              ELSE /\ UNCHANGED <<best_mrr, model_file, saves>>
                   /\ evalLog' = Append(evalLog, Event("test"))
           /\ devHistory' = Append(devHistory, [epoch |-> epoch, mrr |-> dev_mrr, params |-> params])
    /\ pc' = "test"
    /\ StartPass(TestData)
    /\ UNCHANGED <<cfg, epoch, tb, params, runVars>>

\* lines 346-354 and the loop head: the test evaluation has returned
TestReturn ==
    /\ pc = "test"
    /\ PassDone
    /\ NextEpoch
    /\ LeavePass
    /\ UNCHANGED <<cfg, params, best_mrr, model_file, histVars, evalLog, runVars>>

\* The values of cfg["model"] tried ("None" is Python's None), and the
\* configurations of a run: every epoch count with the default model, one
\* epoch with each of the other values.
ModelStrings ==
    {"None", "conve", "distmult", "complex", "ggnn_distmult", "gcn_distmult",
     "gcn_complex", "transe", "ConvE"}
KgConfigs ==
    [model : {"None"}, epochs : 0 .. MaxEpochs, resume : BOOLEAN]
        \cup [model : ModelStrings \ {"None"}, epochs : {1}, resume : BOOLEAN]

\* the text classification script is not running
TextOff ==
    /\ t_cfg = [graph_type |-> "dependency", epochs |-> 0]
    /\ t_pc = "off"
    /\ t_epoch = 0
    /\ t_tb = 0
    /\ t_log = <<>>

Init ==
    /\ cfg \in KgConfigs
    /\ pc = "start"
    /\ epoch = 0
    /\ tb = 0
    /\ params = 0
    /\ best_mrr = Frac(0, 1)
    /\ model_file = IF cfg.resume THEN "resumed" ELSE "none"
    /\ step = "idle"
    /\ loader = <<>>
    /\ e1 = <<>>
    /\ e2 = <<>>
    /\ filter1 = <<>>
    /\ filter2 = <<>>
    /\ pred1 = <<>>
    /\ pred2 = <<>>
    /\ model1 = <<>>
    /\ model2 = <<>>
    /\ argsort1 = <<>>
    /\ argsort2 = <<>>
    /\ ranks = <<>>
    /\ ranks_left = <<>>
    /\ ranks_right = <<>>
    /\ hits = EmptyHits
    /\ hits_left = EmptyHits
    /\ hits_right = EmptyHits
    /\ devHistory = <<>>
    /\ saves = <<>>
    /\ evalLog = <<>>
    /\ exRanks = {}
    /\ error = NoError
    /\ TextOff

Next ==
    \/ UnknownModel
    \/ ResumeTest
    \/ ResumeDev
    \/ ResumeDone
    \/ NoResume
    \/ TrainBatch
    \/ EndEpoch
    \/ DevEvaluation
    \/ LoadBatch
    \/ FilterLoop
    \/ SortRank
    \/ Accumulate
    \/ DevReturn
    \/ TestReturn

Spec == Init /\ [][Next]_vars

\* One evaluation pass over a dataloader of a single one-example batch with
\* wide inputs: the state at line 97 of the first call of the resume branch.
InitEval ==
    /\ cfg = [model |-> "None", epochs |-> 0, resume |-> TRUE]
    /\ pc = "resume_test"
    /\ epoch = 0
    /\ tb = 0
    /\ params = 0
    /\ best_mrr = Frac(0, 1)
    /\ model_file = "resumed"
    /\ step = "load"
    /\ loader \in { << <<x>> >> : x \in WideLeft \cup WideRight }
    /\ e1 = <<>>
    /\ e2 = <<>>
    /\ filter1 = <<>>
    /\ filter2 = <<>>
    /\ pred1 = <<>>
    /\ pred2 = <<>>
    /\ model1 = <<>>
    /\ model2 = <<>>
    /\ argsort1 = <<>>
    /\ argsort2 = <<>>
    /\ ranks = <<>>
    /\ ranks_left = <<>>
    /\ ranks_right = <<>>
    /\ hits = EmptyHits
    /\ hits_left = EmptyHits
    /\ hits_right = EmptyHits
    /\ devHistory = <<>>
    /\ saves = <<>>
    /\ evalLog = << [kind |-> "resume_test", epoch |-> 0, tb |-> 0, params |-> 0] >>
    /\ exRanks = {}
    /\ error = NoError
    /\ TextOff

NextEval ==
    \/ LoadBatchWide
    \/ FilterLoop
    \/ SortRank
    \/ Accumulate

SpecEval == InitEval /\ [][NextEval]_vars

\* The validation examples yielded in any order and in any split into
\* batches (another batch_size, another order of dataset.val).
ValExamples == { Flat(ValData)[k] : k \in 1 .. Len(Flat(ValData)) }
InOrder(S) == { p \in [1 .. Cardinality(S) -> S] : \A a, b \in DOMAIN p : a # b => p[a] # p[b] }
RECURSIVE Splits(_)
Splits(s) ==
    IF s = <<>> THEN { <<>> }
    ELSE UNION { { << SubSeq(s, 1, k) >> \o rest : rest \in Splits(SubSeq(s, k + 1, Len(s))) } :
                 k \in 1 .. Len(s) }
Arrangements == UNION { Splits(p) : p \in InOrder(ValExamples) }

\* One dev pass over an arrangement of the validation examples: the state
\* at line 97 of the second call of the resume branch.
InitOrder ==
    /\ cfg = [model |-> "None", epochs |-> 0, resume |-> TRUE]
    /\ pc = "resume_dev"
    /\ epoch = 0
    /\ tb = 0
    /\ params = 0
    /\ best_mrr = Frac(0, 1)
    /\ model_file = "resumed"
    /\ step = "load"
    /\ loader \in Arrangements
    /\ e1 = <<>>
    /\ e2 = <<>>
    /\ filter1 = <<>>
    /\ filter2 = <<>>
    /\ pred1 = <<>>
    /\ pred2 = <<>>
    /\ model1 = <<>>
    /\ model2 = <<>>
    /\ argsort1 = <<>>
    /\ argsort2 = <<>>
    /\ ranks = <<>>
    /\ ranks_left = <<>>
    /\ ranks_right = <<>>
    /\ hits = EmptyHits
    /\ hits_left = EmptyHits
    /\ hits_right = EmptyHits
    /\ devHistory = <<>>
    /\ saves = <<>>
    /\ evalLog = << [kind |-> "resume_test", epoch |-> 0, tb |-> 0, params |-> 0],
                    [kind |-> "resume_dev", epoch |-> 0, tb |-> 0, params |-> 0] >>
    /\ exRanks = {}
    /\ error = NoError
    /\ TextOff

NextOrder ==
    \/ LoadBatch
    \/ FilterLoop
    \/ SortRank
    \/ Accumulate

SpecOrder == InitOrder /\ [][NextOrder]_vars

\* ============================================ run_text_classifier.py

kgVars == <<mainVars, step, loader, batchVars, sortVars, accVars, histVars, evalLog, exRanks>>

\* lines 145-156 of _build_dataloader: the values of config.graph_type that
\* select a topology builder
KnownGraphType(g) == g \in {"dependency", "constituency", "node_emb", "node_emb_refined"}

\* one step of the text classification run, as it is observed
TEvent(kind, e, b, stop) == [kind |-> kind, epoch |-> e, tb |-> b, stop |-> stop]

\* lines 157-158, reached from line 264 through lines 136-138: the raise
\* statement formats its message from the name config, which is neither a
\* local nor a global of _build_dataloader, so evaluating it raises NameError
UnknownGraphType ==
    /\ t_pc = "init"
    /\ ~KnownGraphType(t_cfg.graph_type)
    /\ t_pc' = "failed"
    /\ error' = Raised("NameError", <<"name '", "config", "' is not defined">>)
    /\ UNCHANGED <<t_cfg, t_epoch, t_tb, t_log, kgVars>>

\* line 264: ModelHandler(args) builds dataloaders, model, optimizer,
\* stopper, scheduler and metric; line 265 enters train and its for loop
BuildHandler ==
    /\ t_pc = "init"
    /\ KnownGraphType(t_cfg.graph_type)
    /\ t_epoch' = 0
    /\ t_tb' = 0
    /\ t_pc' = IF 0 < t_cfg.epochs THEN "batches" ELSE "restore"
    /\ UNCHANGED <<t_cfg, t_log, error, kgVars>>

\* lines 204-215: one training batch, with optimizer.step() at line 210
TextTrainBatch ==
    /\ t_pc = "batches"
    /\ t_tb < NumTrainBatches
    /\ t_log' = Append(t_log, TEvent("train", t_epoch, t_tb, FALSE))
    /\ t_tb' = t_tb + 1
    /\ UNCHANGED <<t_cfg, t_pc, t_epoch, error, kgVars>>

\* line 217: the inner loop is exhausted; evaluate(self.val_dataloader)
Validate ==
    /\ t_pc = "batches"
    /\ t_tb = NumTrainBatches
    /\ t_log' = Append(t_log, TEvent("validate", t_epoch, t_tb, FALSE))
    /\ t_pc' = "scheduler"
    /\ UNCHANGED <<t_cfg, t_epoch, t_tb, error, kgVars>>

\* line 218: self.scheduler.step(val_acc)
SchedulerStep ==
    /\ t_pc = "scheduler"
    /\ t_log' = Append(t_log, TEvent("scheduler", t_epoch, t_tb, FALSE))
    /\ t_pc' = "stopper"
    /\ UNCHANGED <<t_cfg, t_epoch, t_tb, error, kgVars>>

\* lines 222-223 with the break removed
NeverBreaks(result) == FALSE

\* lines 222-223: the loop is left when stopper.step returns true
Breaks(result) == result

\* lines 222-223 and the head of the for loop of line 199: stopper.step
\* returns either value (EarlyStopping decides from val_acc and its patience)
StopperStep ==
    \E result \in BOOLEAN :
        /\ t_pc = "stopper"
        /\ t_log' = Append(t_log, TEvent("stopper", t_epoch, t_tb, result))
        /\ IF Breaks(result)
           THEN /\ t_pc' = "restore"
                /\ UNCHANGED <<t_epoch, t_tb>>
           ELSE /\ t_epoch' = t_epoch + 1
                /\ t_tb' = 0
                /\ t_pc' = IF t_epoch + 1 < t_cfg.epochs THEN "batches" ELSE "restore"
        /\ UNCHANGED <<t_cfg, error, kgVars>>

\* line 267: runner.stopper.load_checkpoint(runner.model)
LoadCheckpoint ==
    /\ t_pc = "restore"
    /\ t_log' = Append(t_log, TEvent("restore", 0, 0, FALSE))
    /\ t_pc' = "test"
    /\ UNCHANGED <<t_cfg, t_epoch, t_tb, error, kgVars>>

\* line 268: runner.test(), one evaluate(self.test_dataloader)
Test ==
    /\ t_pc = "test"
    /\ t_log' = Append(t_log, TEvent("test", 0, 0, FALSE))
    /\ t_pc' = "remove"
    /\ UNCHANGED <<t_cfg, t_epoch, t_tb, error, kgVars>>

\* line 271: os.remove(runner.stopper.save_model_path); main returns
RemoveCheckpoint ==
    /\ t_pc = "remove"
    /\ t_log' = Append(t_log, TEvent("remove", 0, 0, FALSE))
    /\ t_pc' = "exit"
    /\ UNCHANGED <<t_cfg, t_epoch, t_tb, error, kgVars>>

\* The values of --graph_type tried and the configurations of a run.
GraphTypeStrings ==
    {"dependency", "constituency", "node_emb", "node_emb_refined", "Dependency", "static"}
TextConfigs == [graph_type : GraphTypeStrings, epochs : 0 .. MaxEpochs]

\* the knowledge graph completion script is not running
KgOff ==
    /\ cfg = [model |-> "None", epochs |-> 0, resume |-> FALSE]
    /\ pc = "off"
    /\ epoch = 0
    /\ tb = 0
    /\ params = 0
    /\ best_mrr = Frac(0, 1)
    /\ model_file = "none"
    /\ step = "idle"
    /\ loader = <<>>
    /\ e1 = <<>>
    /\ e2 = <<>>
    /\ filter1 = <<>>
    /\ filter2 = <<>>
    /\ pred1 = <<>>
    /\ pred2 = <<>>
    /\ model1 = <<>>
    /\ model2 = <<>>
    /\ argsort1 = <<>>
    /\ argsort2 = <<>>
    /\ ranks = <<>>
    /\ ranks_left = <<>>
    /\ ranks_right = <<>>
    /\ hits = EmptyHits
    /\ hits_left = EmptyHits
    /\ hits_right = EmptyHits
    /\ devHistory = <<>>
    /\ saves = <<>>
    /\ evalLog = <<>>
    /\ exRanks = {}

\* main(args) of the text classification script is entered
InitText ==
    /\ KgOff
    /\ error = NoError
    /\ t_cfg \in TextConfigs
    /\ t_pc = "init"
    /\ t_epoch = 0
    /\ t_tb = 0
    /\ t_log = <<>>

NextText ==
    \/ UnknownGraphType
    \/ BuildHandler
    \/ TextTrainBatch
    \/ Validate
    \/ SchedulerStep
    \/ StopperStep
    \/ LoadCheckpoint
    \/ Test
    \/ RemoveCheckpoint

SpecText == InitText /\ [][NextText]_vars

\* A run of either script.
InitAll == Init \/ InitText

NextAll ==
    \/ Next
    \/ NextText

SpecAll == InitAll /\ [][NextAll]_vars

\* ================================================================ claims
\* The examples of the current batch, and where their entries sit in the
\* rank lists once the batch has been accumulated.
Batch == 1 .. Len(e1)
Filtered == step \in {"sort", "accumulate"} \/ (step = "load" /\ e1 # <<>>)
Sorted == step = "accumulate" \/ (step = "load" /\ e1 # <<>>)
Accumulated == step = "load" /\ e1 # <<>>
LeftRank(i) == ranks_left[Len(ranks_left) - Len(e1) + i]
RightRank(i) == ranks_right[Len(ranks_right) - Len(e1) + i]

\* C1: after the filter step the score stored at the target's index is the
\* score the model produced for it, in both directions, whether or not the
\* target id is in its own filter set.
C1_TargetScorePreserved ==
    Filtered =>
        \A i \in Batch :
            /\ pred1[i][e2[i]] = model1[i][e2[i]]
            /\ pred2[i][e1[i]] = model2[i][e1[i]]

\* C1 witness: the filter loop has run on an example whose targets lie in
\* their own filter sets with non-zero scores.
C1_Witness ==
    /\ step = "sort"
    /\ \E i \in Batch :
          /\ e2[i] \in filter1[i]
          /\ model1[i][e2[i]] # 0
          /\ e1[i] \in filter2[i]
          /\ model2[i][e1[i]] # 0

\* The vector the claims expect to be ranked: the model's scores with the
\* entries of the filter set other than the target set to 0.
Expected(scores, filter, target) ==
    [j \in Ent |-> IF j \in filter /\ j # target THEN 0 ELSE scores[j]]

\* order is a descending sort of row in which target has 1-based position r
IsRankIn(row, order, target, r) ==
    /\ \A a, b \in 1 .. NumEntities : a < b => row[order[a]] >= row[order[b]]
    /\ \A j \in Ent : \E a \in 1 .. NumEntities : order[a] = j
    /\ r \in 1 .. NumEntities
    /\ order[r] = target

StrictlyGreater(row, target) == Cardinality({ j \in Ent : row[j] > row[target] })
TiesWith(row, target) == { j \in Ent : j # target /\ row[j] = row[target] }

\* C2: the recorded rank is the 1-based position of the target in the
\* descending sort of the expected vector; without a tie on the target's
\* score it is 1 + the number of strictly greater entries.
C2_RankIsFilteredPosition ==
    Accumulated =>
        \A i \in Batch :
            LET x1 == Expected(model1[i], filter1[i], e2[i])
                x2 == Expected(model2[i], filter2[i], e1[i])
            IN  /\ pred1[i] = x1
                /\ pred2[i] = x2
                /\ IsRankIn(x1, argsort1[i], e2[i], LeftRank(i))
                /\ IsRankIn(x2, argsort2[i], e1[i], RightRank(i))
                /\ TiesWith(x1, e2[i]) = {} => LeftRank(i) = 1 + StrictlyGreater(x1, e2[i])
                /\ TiesWith(x2, e1[i]) = {} => RightRank(i) = 1 + StrictlyGreater(x2, e1[i])

\* C2 witness: the target is third by raw score, the best entity is
\* filtered out, and the recorded rank is 2.
C2_Witness ==
    /\ Accumulated
    /\ model1[1][0] = 2
    /\ model1[1][1] = 2
    /\ model1[1][2] = 1
    /\ e2[1] = 2
    /\ filter1[1] = {1}
    /\ ranks_left = <<2>>

\* 1-based position of entity j in an index order
PositionIn(order, j) == CHOOSE a \in 1 .. NumEntities : order[a] = j

\* C3: no entity of the filter set other than the target is placed before
\* the target in the descending order used for the rank.
C3_FilteredNeverBeforeTarget ==
    Sorted =>
        \A i \in Batch :
            /\ \A j \in filter1[i] \ {e2[i]} :
                  PositionIn(argsort1[i], j) > PositionIn(argsort1[i], e2[i])
            /\ \A j \in filter2[i] \ {e1[i]} :
                  PositionIn(argsort2[i], j) > PositionIn(argsort2[i], e1[i])

\* C4: every recorded rank lies in 1 .. num_entities.
C4_RankInRange ==
    /\ \A k \in 1 .. Len(ranks) : ranks[k] \in 1 .. NumEntities
    /\ \A k \in 1 .. Len(ranks_left) : ranks_left[k] \in 1 .. NumEntities
    /\ \A k \in 1 .. Len(ranks_right) : ranks_right[k] \in 1 .. NumEntities

\* C4 witness: both ends of the range are recorded in one batch.
C4_Witness ==
    /\ Accumulated
    /\ ranks_left = <<NumEntities>>
    /\ ranks_right = <<1>>
    /\ ranks = <<NumEntities, 1>>

\* the 1-based ranks a row can give its target: after the strictly greater
\* entries, among the entries that tie with it
RanksOf(row, target) ==
    { r \in 1 .. NumEntities :
        /\ r > StrictlyGreater(row, target)
        /\ r <= StrictlyGreater(row, target) + 1 + Cardinality(TiesWith(row, target)) }

\* C9: running the filter step a second time on the filtered row, with the
\* target's value saved again first, leaves the rank unchanged.
C9_FilterIdempotent ==
    Filtered =>
        \A i \in Batch :
            LET again1 == FilterStep(pred1[i], filter1[i], e2[i])
                again2 == FilterStep(pred2[i], filter2[i], e1[i])
            IN  /\ RanksOf(again1, e2[i]) = RanksOf(pred1[i], e2[i])
                /\ RanksOf(again2, e1[i]) = RanksOf(pred2[i], e1[i])
                /\ Accumulated => /\ LeftRank(i) \in RanksOf(again1, e2[i])
                                  /\ RightRank(i) \in RanksOf(again2, e1[i])

\* C9 witness: the filter step changed the row (a non-target filter entry
\* had a non-zero score) and the target is in its own filter set.
C9_Witness ==
    /\ Accumulated
    /\ \E i \in Batch :
          /\ e2[i] \in filter1[i]
          /\ pred1[i] # model1[i]
          /\ pred1[i][e2[i]] # 0

\* C5: the left statistics hold the ranks of the queries whose target is
\* the subject e1, the right statistics those whose target is the object e2.
C5_LeftIsSubjectCorrupted ==
    Accumulated =>
        \A i \in Batch :
            /\ LeftRank(i) = PositionIn(argsort2[i], e1[i])
            /\ RightRank(i) = PositionIn(argsort1[i], e2[i])

\* Number of examples of the running pass that have been accumulated.
RECURSIVE ExamplesIn(_)
ExamplesIn(data) == IF data = <<>> THEN 0 ELSE Len(Head(data)) + ExamplesIn(Tail(data))
DataOf(p) == IF p \in {"resume_test", "test"} THEN TestData ELSE ValData
Processed ==
    IF step = "idle" THEN 0
    ELSE ExamplesIn(DataOf(pc)) - ExamplesIn(loader)
            - (IF step \in {"filter", "sort", "accumulate"} THEN Len(e1) ELSE 0)

\* C6: per example, direction and level exactly one indicator goes to the
\* combined list and one to the direction's list, and it is 1.0 exactly
\* when rank - 1 <= hits_level for the recorded 1-based rank.
C6_HitIndicators ==
    /\ Len(ranks) = 2 * Processed
    /\ Len(ranks_left) = Processed
    /\ Len(ranks_right) = Processed
    /\ \A h \in HitsLevels :
          /\ Len(hits[h]) = 2 * Processed
          /\ Len(hits_left[h]) = Processed
          /\ Len(hits_right[h]) = Processed
          /\ \A k \in 1 .. Len(hits[h]) :
                hits[h][k] = (IF ranks[k] - 1 <= h THEN 1 ELSE 0)
          /\ \A k \in 1 .. Len(hits_left[h]) :
                hits_left[h][k] = (IF ranks_left[k] - 1 <= h THEN 1 ELSE 0)
          /\ \A k \in 1 .. Len(hits_right[h]) :
                hits_right[h][k] = (IF ranks_right[k] - 1 <= h THEN 1 ELSE 0)

\* C6 witness: a two-example batch has been accumulated and a rank of 2
\* misses at level 0 and hits at level 1.
C6_Witness ==
    /\ Accumulated
    /\ Len(e1) = 2
    /\ ranks_left[1] = 2
    /\ hits_left[0][1] = 0
    /\ hits_left[1][1] = 1
    /\ ranks_right[2] = 3
    /\ hits_right[1][2] = 0
    /\ hits_right[2][2] = 1

FracLeq(a, b) == a.num * b.den <= b.num * a.den

\* C7: at the end of a pass with at least one example the hit rate does
\* not decrease with the cutoff, for hits, hits_left and hits_right.
C7_HitsMonotone ==
    (PassDone /\ ranks # <<>>) =>
        \A k \in 0 .. (NumHitsLevels - 2) :
            /\ FracLeq(Mean(hits[k]), Mean(hits[k + 1]))
            /\ FracLeq(Mean(hits_left[k]), Mean(hits_left[k + 1]))
            /\ FracLeq(Mean(hits_right[k]), Mean(hits_right[k + 1]))

\* C7 witness: a dev pass ends with hit rates that grow strictly from
\* hits@1 to hits@2 and from hits@2 to hits@3.
C7_Witness ==
    /\ PassDone
    /\ pc = "dev"
    /\ FracLess(Mean(hits[0]), Mean(hits[1]))
    /\ FracLess(Mean(hits[1]), Mean(hits[2]))
    /\ FracLess(Mean(hits_left[0]), Mean(hits_left[1]))

AllOnes(rs) == \A k \in 1 .. Len(rs) : rs[k] = 1

\* C8: the value returned by a pass with at least one example is > 0 and
\* <= 1, and is 1 exactly when every recorded rank of both directions is 1.
C8_MrrRange ==
    /\ (PassDone /\ ranks # <<>>) =>
          LET m == MeanReciprocalRank(ranks)
          IN  /\ m.den > 0
              /\ m.num > 0
              /\ m.num <= m.den
              /\ (m.num = m.den) <=> (AllOnes(ranks_left) /\ AllOnes(ranks_right))
    /\ \A k \in 1 .. Len(devHistory) :
          /\ devHistory[k].mrr.num > 0
          /\ devHistory[k].mrr.num <= devHistory[k].mrr.den

\* C8 witness: a dev pass in which one direction ranked every target first
\* and the other did not.
C8_Witness ==
    /\ PassDone
    /\ pc = "dev"
    /\ AllOnes(ranks_left)
    /\ ~AllOnes(ranks_right)

\* The dev evaluations of the training loop whose MRR is strictly greater
\* than every earlier one, as the sequence of their epochs.
IsRecord(k) == \A j \in 1 .. (k - 1) : FracLess(devHistory[j].mrr, devHistory[k].mrr)
RECURSIVE RecordEpochs(_)
RecordEpochs(k) ==
    IF k = 0 THEN <<>>
    ELSE IF IsRecord(k) THEN Append(RecordEpochs(k - 1), devHistory[k].epoch)
    ELSE RecordEpochs(k - 1)
IsEarliestBest(k) ==
    /\ IsRecord(k)
    /\ \A j \in 1 .. Len(devHistory) : FracLeq(devHistory[j].mrr, devHistory[k].mrr)

C10_Checkpoint ==
    /\ devHistory = <<>> =>
          /\ best_mrr = Frac(0, 1)
          /\ model_file \in {"none", "resumed"}
    /\ \A k \in 1 .. Len(devHistory) :
          IsEarliestBest(k) =>
              /\ best_mrr = devHistory[k].mrr
              /\ model_file = devHistory[k].params
              /\ devHistory[k].params = (devHistory[k].epoch + 1) * NumTrainBatches
    /\ saves = RecordEpochs(Len(devHistory))

C10_TestKeeps ==
    pc \in {"test", "resume_test"} =>
        (best_mrr' = best_mrr /\ model_file' = model_file /\ saves' = saves)

\* C10: best_mrr is the maximum dev MRR of the training loop so far (0 if
\* none), the model is saved exactly at the dev evaluations that beat every
\* earlier one, so model_path holds the parameters of the earliest epoch
\* with the maximum dev MRR, and no step of a test evaluation changes
\* best_mrr or model_path.
C10_BestCheckpoint == []C10_Checkpoint /\ [][C10_TestKeeps]_vars

\* C10 witness: two dev evaluations returned the same MRR and the file
\* holds the parameters of the first.
C10_Witness ==
    /\ pc = "done"
    /\ Len(devHistory) = 2
    /\ FracEq(devHistory[1].mrr, devHistory[2].mrr)
    /\ saves = <<2>>
    /\ model_file = devHistory[1].params
    /\ params > model_file

\* C11: every call starts from empty accumulators, so at every point of a
\* pass the accumulators hold the ranks of the examples of that pass
\* processed so far and nothing else, whatever passes ran before it.
C11_FreshAccumulators ==
    /\ (step = "load" /\ Processed = 0) =>
          /\ ranks = <<>>
          /\ ranks_left = <<>>
          /\ ranks_right = <<>>
          /\ \A h \in HitsLevels : hits[h] = <<>> /\ hits_left[h] = <<>> /\ hits_right[h] = <<>>
    /\ step # "idle" =>
          /\ Len(ranks_left) = Processed
          /\ Len(ranks_right) = Processed
          /\ Len(ranks) = 2 * Processed
          /\ Cardinality(exRanks) = Processed
          /\ \A k \in 1 .. Processed :
                /\ << Flat(DataOf(pc))[k], ranks_left[k], ranks_right[k] >> \in exRanks
                /\ ranks[2 * k - 1] = ranks_left[k]
                /\ ranks[2 * k] = ranks_right[k]

\* C11 witness: the dev pass of epoch 4 of a resumed run ends; four passes
\* ran before it.
C11_Witness ==
    /\ PassDone
    /\ pc = "dev"
    /\ epoch = 4
    /\ cfg.resume
    /\ Len(evalLog) >= 5
    /\ Len(ranks_left) = 3

\* Sums over the per-example ranks of a pass, taken in no particular order:
\* d = 2 is the left rank, d = 3 the right rank.
RECURSIVE SumRank(_, _)
SumRank(S, d) ==
    IF S = {} THEN 0
    ELSE LET t == CHOOSE x \in S : TRUE IN t[d] + SumRank(S \ {t}, d)
RECURSIVE SumRecip(_, _)
SumRecip(S, d) ==
    IF S = {} THEN 0
    ELSE LET t == CHOOSE x \in S : TRUE IN (RecipUnit \div t[d]) + SumRecip(S \ {t}, d)
HitCount(S, d, k) == Cardinality({ t \in S : t[d] - 1 <= k })

\* C12: the means reported at the end of a pass are those of the set of
\* per-example ranks, whatever the order of the examples and their split
\* into batches.
C12_OrderIndependent ==
    PassDone =>
        LET n == Cardinality(ValExamples)
        IN  /\ Cardinality(exRanks) = n
            /\ { t[1] : t \in exRanks } = ValExamples
            /\ Mean(ranks_left) = Frac(SumRank(exRanks, 2), n)
            /\ Mean(ranks_right) = Frac(SumRank(exRanks, 3), n)
            /\ Mean(ranks) = Frac(SumRank(exRanks, 2) + SumRank(exRanks, 3), 2 * n)
            /\ MeanReciprocalRank(ranks_left) = Frac(SumRecip(exRanks, 2), n * RecipUnit)
            /\ MeanReciprocalRank(ranks_right) = Frac(SumRecip(exRanks, 3), n * RecipUnit)
            /\ MeanReciprocalRank(ranks) =
                  Frac(SumRecip(exRanks, 2) + SumRecip(exRanks, 3), 2 * n * RecipUnit)
            /\ \A k \in HitsLevels :
                  /\ Mean(hits_left[k]) = Frac(HitCount(exRanks, 2, k), n)
                  /\ Mean(hits_right[k]) = Frac(HitCount(exRanks, 3, k), n)
                  /\ Mean(hits[k]) =
                        Frac(HitCount(exRanks, 2, k) + HitCount(exRanks, 3, k), 2 * n)

\* C12 witness: a pass that took the examples in another order and another
\* split than the validation dataloader (its first example last, in a
\* batch of two) ends with ranks that differ between examples.
C12_Witness ==
    /\ PassDone
    /\ Len(e1) = 2
    /\ Example(e1[2], e2[2], filter1[2], filter2[2]) = Flat(ValData)[1]
    /\ ranks_left[1] # ranks_left[3]
    /\ ranks_right[2] # ranks_right[3]

\* C13: with an unrecognized model string (knowledge graph script) or an
\* unrecognized graph type (text script) the run is either not yet past its
\* configuration check or has failed there: no optimizer step was taken,
\* no evaluation pass was started, and a failed run takes no further step.
C13_NothingRan ==
    /\ (pc # "off" /\ cfg.model \notin {"None", "conve", "distmult", "complex",
                                        "ggnn_distmult", "gcn_distmult", "gcn_complex"}) =>
          /\ pc \in {"start", "failed"}
          /\ params = 0
          /\ evalLog = <<>>
          /\ step = "idle"
          /\ ranks = <<>>
          /\ saves = <<>>
    /\ (t_pc # "off" /\ t_cfg.graph_type \notin {"dependency", "constituency", "node_emb",
                                                  "node_emb_refined"}) =>
          /\ t_pc \in {"init", "failed"}
          /\ t_log = <<>>
    /\ (pc = "failed" \/ t_pc = "failed") => error # NoError
C13_FailedIsFinal == ~(pc = "failed" \/ t_pc = "failed")
C13_FailsFast == []C13_NothingRan /\ [][C13_FailedIsFinal]_vars

\* C13 witness: a run given the model string "transe" with resume set has
\* failed at the construction of the model.
C13_Witness ==
    /\ pc = "failed"
    /\ cfg.model = "transe"
    /\ cfg.resume
    /\ error.type = "Exception"

\* C14: the error of a failed run carries the offending option value, the
\* model string or the graph type, in its message.
C14_MessageNamesValue ==
    /\ pc = "failed" => \E i \in DOMAIN error.parts : error.parts[i] = cfg.model
    /\ t_pc = "failed" => \E i \in DOMAIN error.parts : error.parts[i] = t_cfg.graph_type

\* the evaluations and saves of the training loop, in the order they happened
InLoop(ev) == ev.kind \in {"dev", "save", "test"}
LoopLog == SelectSeq(evalLog, InLoop)
EpochsOf(kind) == { LoopLog[i].epoch : i \in { j \in DOMAIN LoopLog : LoopLog[j].kind = kind } }
CountOf(kind) == Cardinality({ j \in DOMAIN LoopLog : LoopLog[j].kind = kind })
\* the even epochs after epoch 0 whose end of epoch has been reached
DueEpochs(positions) ==
    { e \in 1 .. epoch : e % 2 = 0 /\ (e < epoch \/ pc \in positions) }

\* C15: in the training loop the dev and the test evaluation run once in
\* each even epoch after epoch 0 and in no other, after every training
\* batch of that epoch, in the order dev, checkpoint save if any, test; a
\* run of at most two epochs evaluates nothing in the loop and saves
\* nothing, a run of three or more has saved at epoch 2 once it is past it.
C15_EvaluationSchedule ==
    /\ \A i \in DOMAIN LoopLog :
          LET ev == LoopLog[i]
          IN  /\ ev.epoch % 2 = 0
              /\ ev.epoch > 0
              /\ ev.epoch < cfg.epochs
              /\ ev.tb = NumTrainBatches
              /\ ev.params = (ev.epoch + 1) * NumTrainBatches
              /\ ev.kind = "dev" =>
                    IF i = 1 THEN ev.epoch = 2
                    ELSE LoopLog[i - 1].kind = "test" /\ LoopLog[i - 1].epoch = ev.epoch - 2
              /\ ev.kind = "save" =>
                    i > 1 /\ LoopLog[i - 1].kind = "dev" /\ LoopLog[i - 1].epoch = ev.epoch
              /\ ev.kind = "test" =>
                    i > 1 /\ LoopLog[i - 1].kind \in {"dev", "save"}
                          /\ LoopLog[i - 1].epoch = ev.epoch
    /\ EpochsOf("dev") = DueEpochs({"dev", "test"})
    /\ EpochsOf("test") = DueEpochs({"test"})
    /\ CountOf("dev") = Cardinality(EpochsOf("dev"))
    /\ CountOf("test") = Cardinality(EpochsOf("test"))
    /\ EpochsOf("save") = { saves[i] : i \in DOMAIN saves }
    /\ cfg.epochs <= 2 => LoopLog = <<>> /\ saves = <<>>
    /\ (cfg.epochs >= 3 /\ 2 \in DueEpochs({"test"})) => saves # <<>> /\ saves[1] = 2

\* C15 witness: a run of five epochs without resume has ended after
\* dev, save and test in epoch 2 and dev and test, without a save, in epoch 4.
C15_Witness ==
    /\ pc = "done"
    /\ cfg.epochs = 5
    /\ ~cfg.resume
    /\ Len(LoopLog) = 5
    /\ saves = << 2 >>
    /\ LoopLog[5].kind = "test"
    /\ LoopLog[5].epoch = 4

\* what one executed epoch of train does, in order: every training batch,
\* the validation, scheduler.step, stopper.step with its result
RECURSIVE TrainSteps(_, _)
TrainSteps(e, b) ==
    IF b = 0 THEN <<>> ELSE Append(TrainSteps(e, b - 1), TEvent("train", e, b - 1, FALSE))
EpochSteps(e, stop) ==
    TrainSteps(e, NumTrainBatches)
        \o << TEvent("validate", e, NumTrainBatches, FALSE),
              TEvent("scheduler", e, NumTrainBatches, FALSE),
              TEvent("stopper", e, NumTrainBatches, stop) >>
\* k executed epochs, the last of which ended the loop early or not
RECURSIVE LoopSteps(_, _)
LoopSteps(k, stopped) ==
    IF k = 0 THEN <<>> ELSE LoopSteps(k - 1, FALSE) \o EpochSteps(k - 1, stopped)
RunSteps(k, stopped) ==
    LoopSteps(k, stopped)
        \o << TEvent("restore", 0, 0, FALSE), TEvent("test", 0, 0, FALSE),
              TEvent("remove", 0, 0, FALSE) >>
IsPrefix(s, t) == Len(s) <= Len(t) /\ SubSeq(t, 1, Len(s)) = s

\* C16: what the text classification run has done so far is the beginning
\* of: k <= config.epochs epochs, each of all training batches, one
\* validation, scheduler.step, stopper.step, where only the last
\* stopper.step may have returned true and k = config.epochs otherwise;
\* then restore, test, remove, once each. A finished run has done all of it.
C16_TrainThenTestOnce ==
    KnownGraphType(t_cfg.graph_type) =>
        \E k \in 0 .. t_cfg.epochs : \E stopped \in BOOLEAN :
            /\ stopped => k >= 1
            /\ ~stopped => k = t_cfg.epochs
            /\ IsPrefix(t_log, RunSteps(k, stopped))
            /\ t_pc = "exit" => t_log = RunSteps(k, stopped)
            /\ t_pc \in {"restore", "test", "remove", "exit"} =>
                  Len(t_log) >= Len(LoopSteps(k, stopped))

\* C16 witness: a run of four epochs was stopped by stopper.step in its
\* third epoch, restored, tested, removed the checkpoint and returned.
C16_Witness ==
    /\ t_pc = "exit"
    /\ t_cfg.epochs = 4
    /\ t_epoch = 2
    /\ t_log[Len(t_log) - 3] = TEvent("stopper", 2, NumTrainBatches, TRUE)
    /\ t_log[Len(t_log)].kind = "remove"

\* the average of two fractions
FracAvg(a, b) == Frac(a.num * b.den + b.num * a.den, 2 * a.den * b.den)

\* C17: once N examples have been accumulated, in whatever batches,
\* ranks_left and ranks_right hold N entries and ranks 2N, and so do the
\* lists of every hits level; hence the combined mean rank is the average
\* of the left and right mean ranks, and likewise each combined hits@k.
C17_CombinedIsAverage ==
    step # "idle" =>
        LET N == Processed
        IN  /\ Len(ranks_left) = N
            /\ Len(ranks_right) = N
            /\ Len(ranks) = 2 * N
            /\ \A k \in HitsLevels :
                  /\ Len(hits_left[k]) = N
                  /\ Len(hits_right[k]) = N
                  /\ Len(hits[k]) = 2 * N
            /\ N > 0 =>
                  /\ FracEq(Mean(ranks), FracAvg(Mean(ranks_left), Mean(ranks_right)))
                  /\ \A k \in HitsLevels :
                        FracEq(Mean(hits[k]), FracAvg(Mean(hits_left[k]), Mean(hits_right[k])))

\* C17 witness: a pass of three batches of one example each has ended with
\* left and right mean ranks that differ, and hits@1 rates that differ.
C17_Witness ==
    /\ PassDone
    /\ Len(e1) = 1
    /\ Len(ranks) = 6
    /\ ~FracEq(Mean(ranks_left), Mean(ranks_right))
    /\ ~FracEq(Mean(hits_left[0]), Mean(hits_right[0]))
    /\ ranks_left[1] # ranks_left[2]

====
